---- MODULE Spec2Model ----
(***************************************************************************)
(* Streaming-claim pipeline of papertrail-ai-backend.                      *)
(*                                                                         *)
(* One job key of the key-value store (hash jobs:{id}, list claims:{id},   *)
(* blob:{id}) and one stream connection slot on it.  A stream-claim        *)
(* request walks PaperService.stream_claims and make_live_stream from one  *)
(* suspension point to the next; the client may cut the connection at any  *)
(* of them and open a new one (a reconnect) afterwards.                    *)
(***************************************************************************)
EXTENDS Integers, Sequences, FiniteSets, TLC

VARIABLES
    uploaded,   \* create_job_for_file has returned this job's id
    jobHash,    \* the Redis hash jobs:{id}
    buffer,     \* the Redis list claims:{id}
    blob,       \* the Redis value blob:{id}
    ttl,        \* remaining TTL of each key (-1: the key does not exist)
    conn,       \* locals of the running stream_claims / make_live_stream
                \* (prev: how the connection before this one ended)
    tasks,      \* the page tasks of make_live_stream: state and result
    doneQ,      \* pages in completion order, not yet taken by as_completed
    wire,       \* the NDJSON events the connection has emitted
    appended,   \* history: ids ever appended to the buffer
    calls,      \* history of the connection: LLM calls, appends, saves
    verifs,     \* the Redis values verify:{jobId}:{claimId}
    verified    \* history: the last verify_claim call completed per claim id

vars == <<uploaded, jobHash, buffer, blob, ttl, conn, tasks, doneQ, wire,
          appended, calls, verifs, verified>>

------------------------------------------------------------------------------
(* Bounds and program constants *)

MaxPages == 2
PoolPages == 6
EXTRACT_CONCURRENCY == 4
PERSISTENCE_TTL_SECONDS == 3

JobId == "j"
NoId == ""
JobStatusValues == {"streaming", "finished"}

Max(a, b) == IF a >= b THEN a ELSE b

------------------------------------------------------------------------------
(* Wire events (model/api.py StreamEvent); page is the page a live event   *)
(* belongs to (0 outside the extract phase), kept for the ordering claims. *)
(* A claim event carries the overlay fields of its payload; "" and -1 are  *)
(* None.                                                                   *)

ProgressEvent(phase, processed, total, page) ==
    [type |-> "progress", phase |-> phase, processed |-> processed,
     total |-> total, id |-> "", page |-> page, message |-> "",
     verdict |-> "", confidence |-> -1, reasoningMd |-> "", sourceUploaded |-> FALSE]

ClaimEvent(payload, page) ==
    [type |-> "claim", phase |-> "", processed |-> 0, total |-> 0,
     id |-> payload.id, page |-> page, message |-> "",
     verdict |-> payload.verdict, confidence |-> payload.confidence,
     reasoningMd |-> payload.reasoningMd, sourceUploaded |-> payload.sourceUploaded]

ErrorEvent(message) ==
    [type |-> "error", phase |-> "", processed |-> 0, total |-> 0,
     id |-> "", page |-> 0, message |-> message,
     verdict |-> "", confidence |-> -1, reasoningMd |-> "", sourceUploaded |-> FALSE]

DoneEvent ==
    [type |-> "done", phase |-> "", processed |-> 0, total |-> 0,
     id |-> "", page |-> 0, message |-> "",
     verdict |-> "", confidence |-> -1, reasoningMd |-> "", sourceUploaded |-> FALSE]

------------------------------------------------------------------------------
(* JobRepository: the hash jobs:{id}.  A missing field is "" or -1; the    *)
(* key exists when at least one field is set.                              *)

EmptyHash ==
    [id |-> "", status |-> "", phase |-> "", progress_processed |-> -1,
     progress_total |-> -1, processed |-> -1, total |-> -1]

HashExists(h) == h # EmptyHash

put(h, job) ==
    [h EXCEPT !.id = job.id, !.status = job.status,
              !.processed = job.processed, !.total = job.total]

create(h, initial_status) ==
    put(h, [id |-> JobId, status |-> initial_status, processed |-> 0, total |-> 0])

NoJob == [found |-> FALSE, id |-> "", status |-> "", processed |-> 0, total |-> 0]

get(h) ==
    IF ~HashExists(h) THEN NoJob
    ELSE [found |-> TRUE,
          id |-> h.id,
          status |-> IF h.status = "" THEN "streaming" ELSE h.status,
          processed |-> IF h.processed = -1 THEN 0 ELSE h.processed,
          total |-> IF h.total = -1 THEN 0 ELSE h.total]

set_status(h, status) == [h EXCEPT !.status = status]

save_parse_progress(h, processed, total) ==
    [h EXCEPT !.phase = "parse",
              !.progress_processed = processed,
              !.progress_total = total,
              !.processed = processed,
              !.total = total]

\* save_phase_progress is what _emit_phase_progress calls: the same write
\* with the phase given by the caller.
save_phase_progress(h, phase, processed, total) ==
    [save_parse_progress(h, processed, total) EXCEPT !.phase = phase]

\* get_status: the hash's status field ("" when there is none).
get_status(h) == h.status

NoSnap == [found |-> FALSE, phase |-> "", processed |-> 0, total |-> 0]

get_progress_snapshot(h) ==
    IF ~HashExists(h) THEN NoSnap
    ELSE IF h.phase # "parse" THEN NoSnap
    ELSE [found |-> TRUE,
          phase |-> "parse",
          processed |-> IF h.progress_processed = -1 THEN 0 ELSE h.progress_processed,
          total |-> IF h.progress_total = -1 THEN 0 ELSE h.progress_total]

\* r.expire(key, ttl): refreshes the TTL of an existing key only.
expire(t, key) ==
    IF t[key] = -1 THEN t ELSE [t EXCEPT ![key] = PERSISTENCE_TTL_SECONDS]

written_once(t, key) ==
    IF t[key] = -1 THEN [t EXCEPT ![key] = PERSISTENCE_TTL_SECONDS] ELSE t

\* A write (hset, rpush, set) creates the key; the expire after it sets the TTL.
written(t, key) == [t EXCEPT ![key] = PERSISTENCE_TTL_SECONDS]

------------------------------------------------------------------------------
(* ClaimBufferRepository and BlobRepository *)

\* A claim as _one_page builds it: no verdict, no confidence, sourceUploaded
\* false; the text is the LLM's, named after the id here.
MakeClaim(id) ==
    [id |-> id, text |-> "t:" \o id, verdict |-> "", confidence |-> -1,
     reasoningMd |-> "", sourceUploaded |-> FALSE]

buffer_append(buf, claim) == Append(buf, claim)
buffer_all(buf) == buf
buffer_clear(buf) == <<>>

NoPdf == [present |-> FALSE, len |-> 0, pages |-> 0]
put_pdf(data) == [present |-> TRUE, len |-> data.len, pages |-> data.pages]
get_pdf(b) == b

\* extract_pages_texts: the 1-based page numbers, or [] when parsing fails.
extract_pages_texts(pdf) ==
    IF pdf.pages = 0 THEN <<>> ELSE [i \in 1..pdf.pages |-> i]

PdfInputs ==
    {[len |-> 0, pages |-> 0]} \cup {[len |-> 1, pages |-> n] : n \in 0..MaxPages}

------------------------------------------------------------------------------
(* VerificationRepository: the values verify:{jobId}:{claimId}, and the    *)
(* overlay of a stored verification on an emitted claim.                   *)

\* The claim ids verify_claim is called with: one the extractor gives, the
\* one _one_page gives the second claim of page 1 when the LLM gave none,
\* and one that is never in the buffer.
BufferedVerifyId == "a"
DefaultVerifyId == "p1_2"
UnknownVerifyId == "x"
VerifyIds == {BufferedVerifyId, DefaultVerifyId, UnknownVerifyId}

NoVerification == [found |-> FALSE, verdict |-> "", confidence |-> -1, reasoningMd |-> ""]

\* What the verification pipeline may answer.
VerifyResults ==
    {[found |-> TRUE, verdict |-> "supported", confidence |-> 1, reasoningMd |-> "r1"],
     [found |-> TRUE, verdict |-> "unsupported", confidence |-> 0, reasoningMd |-> "r2"]}

VerifyKey(cid) == "verify:" \o cid

verification_get(v, cid) == IF cid \in DOMAIN v THEN v[cid] ELSE NoVerification
verification_set(v, cid, result) == [v EXCEPT ![cid] = result]

\* functions.stream_merge_saved: the saved fields over the claim's.
stream_merge_saved(merged, saved) ==
    [merged EXCEPT !.verdict = saved.verdict,
                   !.confidence = saved.confidence,
                   !.reasoningMd = saved.reasoningMd,
                   !.sourceUploaded = TRUE]

merge_verification_none(v, claim_dict) == claim_dict

\* _merge_verification, on a copy of the claim (dict(cdict)).
merge_verification(v, claim_dict) ==
    IF claim_dict.id = "" THEN claim_dict
    ELSE IF verification_get(v, claim_dict.id).found
         THEN stream_merge_saved(claim_dict, verification_get(v, claim_dict.id))
         ELSE claim_dict

\* The replay's overlay: merged = c.model_dump(); saved = verifications.get.
replay_merged(v, c) ==
    IF verification_get(v, c.id).found
    THEN stream_merge_saved(c, verification_get(v, c.id))
    ELSE c

------------------------------------------------------------------------------
(* Extraction of one page *)

ToStr(n) == ToString(n)
DefaultId(pn, n) == "p" \o ToStr(pn) \o "_" \o ToStr(n)

\* What extract_claims_from_page may return for a page, as the ids of its
\* claims (NoId for a claim the LLM gave no id): no claim (also a page whose
\* call failed), one claim, two claims.  The LLM is free to give the same id
\* on every page.
ExtractorOutputs == {<<>>, <<"a">>, <<"a", NoId>>}

\* _one_page's loop: out[i].id = c.get("id") or f"p{pn}_{len(out)+1}"
one_page_out(pn, claims) ==
    [i \in 1..Len(claims) |->
        MakeClaim(IF claims[i] # NoId THEN claims[i] ELSE DefaultId(pn, i))]

InState(ts, st) == {p \in DOMAIN ts : ts[p].state = st}

Lowest(S) == CHOOSE p \in S : \A q \in S : p <= q

sem_acquire_unbounded(ts) == [p \in DOMAIN ts |->
    IF ts[p].state = "waiting" THEN [ts[p] EXCEPT !.state = "running"] ELSE ts[p]]

\* async with sem: Semaphore(max(1, extract_concurrency)) lets the waiting
\* pages in, in the order their tasks were created, while a permit is free.
RECURSIVE sem_acquire(_)
sem_acquire(ts) ==
    IF InState(ts, "waiting") = {}
       \/ Cardinality(InState(ts, "running")) >= Max(1, EXTRACT_CONCURRENCY)
    THEN ts
    ELSE sem_acquire([ts EXCEPT ![Lowest(InState(ts, "waiting"))].state = "running"])

\* The pages that entered the semaphore between ts and ts2.
Entered(ts, ts2) == Cardinality(InState(ts2, "running") \ InState(ts, "running"))

------------------------------------------------------------------------------
(* Initial state *)

ConnInit ==
    [pc |-> "idle", prev |-> "idle", status |-> "", snap |-> NoSnap, buffered |-> <<>>,
     idx |-> 0, total_pages |-> 0, skip |-> {}, emit_parse |-> FALSE,
     i |-> 0, finished_pages |-> 0, taken |-> 0, pn |-> 0,
     claim_list |-> <<>>, ci |-> 0]

CallsInit == [llm |-> 0, appends |-> 0, saves |-> 0]

TtlKeys == {"job", "claims", "blob"} \cup {VerifyKey(c) : c \in VerifyIds}

NoCall == [called |-> FALSE, claim_text |-> "", result |-> NoVerification]

Init ==
    /\ uploaded = FALSE
    /\ jobHash = EmptyHash
    /\ buffer = <<>>
    /\ blob = NoPdf
    /\ ttl = [k \in TtlKeys |-> -1]
    /\ conn = ConnInit
    /\ tasks = <<>>
    /\ doneQ = <<>>
    /\ wire = <<>>
    /\ appended = {}
    /\ calls = CallsInit
    /\ verifs = [c \in VerifyIds |-> NoVerification]
    /\ verified = [c \in VerifyIds |-> NoCall]

------------------------------------------------------------------------------
(* Upload, status writes and the client's side of a connection *)

\* create_job_for_file without the blob write: the job and the buffer only.
create_job_for_file_no_blob(data) ==
    /\ ~uploaded
    /\ uploaded' = TRUE
    /\ jobHash' = create(jobHash, "streaming")
    /\ buffer' = buffer_clear(buffer)
    /\ ttl' = [written(ttl, "job") EXCEPT !["claims"] = -1]
    /\ UNCHANGED <<blob, conn, tasks, doneQ, wire, appended, calls, verifs, verified>>

\* PaperService.create_job_for_file: a fresh job, an empty buffer, the blob.
create_job_for_file(data) ==
    /\ ~uploaded
    /\ uploaded' = TRUE
    /\ jobHash' = create(jobHash, "streaming")
    /\ buffer' = buffer_clear(buffer)
    /\ blob' = put_pdf(data)
    /\ ttl' = [written(written(ttl, "job"), "blob") EXCEPT !["claims"] = -1]
    /\ UNCHANGED <<conn, tasks, doneQ, wire, appended, calls, verifs, verified>>

\* JobRepository.set_status called on the job's key.
set_status_call(status) ==
    /\ uploaded
    /\ jobHash.status # status
    /\ jobHash' = set_status(jobHash, status)
    /\ ttl' = written(ttl, "job")
    /\ UNCHANGED <<uploaded, buffer, blob, conn, tasks, doneQ, wire, appended, calls,
                   verifs, verified>>

\* POST /stream-claim: a new connection (the first, or a reconnect).
ClientOpen ==
    /\ conn.pc \in {"idle", "closed", "cut"}
    /\ conn' = [ConnInit EXCEPT !.pc = "resolve", !.prev = conn.pc]
    /\ tasks' = <<>>
    /\ doneQ' = <<>>
    /\ wire' = <<>>
    /\ calls' = CallsInit
    /\ UNCHANGED <<uploaded, jobHash, buffer, blob, ttl, appended, verifs, verified>>

\* The client goes away: the generator is closed where it is suspended.
ClientDisconnect ==
    /\ conn.pc \notin {"idle", "closed", "cut"}
    /\ conn' = [ConnInit EXCEPT !.pc = "cut"]
    /\ UNCHANGED <<uploaded, jobHash, buffer, blob, ttl, tasks, doneQ, wire,
                   appended, calls, verifs, verified>>

------------------------------------------------------------------------------
(* PaperService.stream_claims *)

Emit(e) == wire' = Append(wire, e)

\* (status or "").lower() == "finished"
Lower(s) == IF s = "FINISHED" THEN "finished" ELSE s
IsFinishedExactCase(status) == status = "FINISHED"

IsFinished(status) == Lower(status) = "finished"

stream_claims_resolve_silent ==
    /\ conn.pc = "resolve"
    /\ LET job == get(jobHash) IN
       IF ~job.found
       THEN conn' = [conn EXCEPT !.pc = "unknown"]
       ELSE conn' = [conn EXCEPT
                   !.pc = "snapshot",
                   !.status = IF get_status(jobHash) # "" THEN get_status(jobHash)
                              ELSE job.status,
                   !.snap = get_progress_snapshot(jobHash)]
    /\ UNCHANGED <<uploaded, jobHash, buffer, blob, ttl, tasks, doneQ, wire, appended, calls,
                   verifs, verified>>

\* S0: resolve the job; an unknown job answers with an error event.
stream_claims_resolve ==
    /\ conn.pc = "resolve"
    /\ LET job == get(jobHash) IN
       IF ~job.found
       THEN /\ Emit(ErrorEvent("Unknown or expired jobId"))
            /\ conn' = [conn EXCEPT !.pc = "unknown"]
       ELSE /\ conn' = [conn EXCEPT
                   !.pc = "snapshot",
                   !.status = IF get_status(jobHash) # "" THEN get_status(jobHash)
                              ELSE job.status,
                   !.snap = get_progress_snapshot(jobHash)]
            /\ UNCHANGED wire
    /\ UNCHANGED <<uploaded, jobHash, buffer, blob, ttl, tasks, doneQ, appended, calls,
                   verifs, verified>>

stream_claims_unknown_done ==
    /\ conn.pc = "unknown"
    /\ Emit(DoneEvent)
    /\ conn' = [conn EXCEPT !.pc = "closed"]
    /\ UNCHANGED <<uploaded, jobHash, buffer, blob, ttl, tasks, doneQ, appended, calls,
                   verifs, verified>>

\* S1: the latest snapshot, once.
stream_claims_snapshot ==
    /\ conn.pc = "snapshot"
    /\ IF conn.snap.found /\ conn.snap.total > 0
       THEN Emit(ProgressEvent(conn.snap.phase, conn.snap.processed, conn.snap.total, 0))
       ELSE UNCHANGED wire
    /\ conn' = [conn EXCEPT !.pc = "pull"]
    /\ UNCHANGED <<uploaded, jobHash, buffer, blob, ttl, tasks, doneQ, appended, calls,
                   verifs, verified>>

\* buffered = await self._buffer.all(job_id)
stream_claims_pull ==
    /\ conn.pc = "pull"
    /\ conn' = [conn EXCEPT !.pc = "replay", !.buffered = buffer_all(buffer), !.idx = 1]
    /\ UNCHANGED <<uploaded, jobHash, buffer, blob, ttl, tasks, doneQ, wire, appended, calls,
                   verifs, verified>>

stream_claims_replay_reversed ==
    /\ conn.pc = "replay"
    /\ conn.idx <= Len(conn.buffered)
    /\ ttl' = expire(ttl, "claims")
    /\ Emit(ClaimEvent(replay_merged(verifs,
                            conn.buffered[Len(conn.buffered) + 1 - conn.idx]), 0))
    /\ conn' = [conn EXCEPT !.idx = conn.idx + 1]
    /\ UNCHANGED <<uploaded, jobHash, buffer, blob, tasks, doneQ, appended, calls,
                   verifs, verified>>

\* S2: one buffered claim replayed.
stream_claims_replay ==
    /\ conn.pc = "replay"
    /\ conn.idx <= Len(conn.buffered)
    /\ ttl' = expire(ttl, "claims")
    /\ Emit(ClaimEvent(replay_merged(verifs, conn.buffered[conn.idx]), 0))
    /\ conn' = [conn EXCEPT !.idx = conn.idx + 1]
    /\ UNCHANGED <<uploaded, jobHash, buffer, blob, tasks, doneQ, appended, calls,
                   verifs, verified>>

ReplayOver == conn.pc = "replay" /\ conn.idx > Len(conn.buffered)

\* S3: a finished job is never extracted again.
stream_claims_finished ==
    /\ ReplayOver
    /\ IsFinished(conn.status)
    /\ Emit(DoneEvent)
    /\ conn' = [conn EXCEPT !.pc = "closed"]
    /\ UNCHANGED <<uploaded, jobHash, buffer, blob, ttl, tasks, doneQ, appended, calls,
                   verifs, verified>>

PdfMissing(pdf) == ~pdf.present \/ pdf.len = 0

stream_claims_no_pdf_silent ==
    /\ ReplayOver
    /\ ~IsFinished(conn.status)
    /\ PdfMissing(get_pdf(blob))
    /\ conn' = [conn EXCEPT !.pc = "closed"]
    /\ UNCHANGED <<uploaded, jobHash, buffer, blob, ttl, tasks, doneQ, wire, appended, calls,
                   verifs, verified>>

\* S4: no blob.
stream_claims_no_pdf ==
    /\ ReplayOver
    /\ ~IsFinished(conn.status)
    /\ PdfMissing(get_pdf(blob))
    /\ Emit(DoneEvent)
    /\ conn' = [conn EXCEPT !.pc = "closed"]
    /\ UNCHANGED <<uploaded, jobHash, buffer, blob, ttl, tasks, doneQ, appended, calls,
                   verifs, verified>>

\* S4: the blob parses to no page.
stream_claims_no_pages ==
    /\ ReplayOver
    /\ ~IsFinished(conn.status)
    /\ ~PdfMissing(get_pdf(blob))
    /\ extract_pages_texts(get_pdf(blob)) = <<>>
    /\ Emit(DoneEvent)
    /\ conn' = [conn EXCEPT !.pc = "closed"]
    /\ UNCHANGED <<uploaded, jobHash, buffer, blob, ttl, tasks, doneQ, appended, calls,
                   verifs, verified>>

\* emit_parse = not (snap and snap.get("phase") == "extract")
EmitParse(snap) == ~(snap.found /\ snap.phase = "extract")

\* S5: skip_ids and emit_parse, then make_live_stream starts.
stream_claims_live ==
    /\ ReplayOver
    /\ ~IsFinished(conn.status)
    /\ ~PdfMissing(get_pdf(blob))
    /\ extract_pages_texts(get_pdf(blob)) # <<>>
    /\ conn' = [conn EXCEPT
           !.total_pages = Len(extract_pages_texts(get_pdf(blob))),
           !.skip = {conn.buffered[k].id : k \in 1..Len(conn.buffered)},
           !.emit_parse = EmitParse(conn.snap),
           !.i = 0,
           !.pc = IF EmitParse(conn.snap) THEN "parse" ELSE "spawn"]
    /\ UNCHANGED <<uploaded, jobHash, buffer, blob, ttl, tasks, doneQ, wire, appended, calls,
                   verifs, verified>>

------------------------------------------------------------------------------
(* make_live_stream *)

\* _emit_phase_progress: persist the snapshot, then the event.
emit_phase_progress(phase, processed, total, page) ==
    /\ jobHash' = save_phase_progress(jobHash, phase, processed, total)
    /\ ttl' = written(ttl, "job")
    /\ calls' = [calls EXCEPT !.saves = calls.saves + 1]
    /\ Emit(ProgressEvent(phase, processed, total, page))

\* The parse ladder: i = 0..N.
make_live_stream_parse ==
    /\ conn.pc = "parse"
    /\ emit_phase_progress("parse", conn.i, conn.total_pages, 0)
    /\ conn' = [conn EXCEPT
           !.i = conn.i + 1,
           !.pc = IF conn.i = conn.total_pages THEN "spawn" ELSE "parse"]
    /\ UNCHANGED <<uploaded, buffer, blob, tasks, doneQ, appended, verifs, verified>>

\* extract_start_processed as stream_claims passes it: not at all.
ExtractStartProcessed == 0

\* One task per page; finished_pages = max(0, extract_start_processed).
\* The tasks run from the first await on (the await of as_completed).
create_tasks(n) == [p \in 1..n |-> [state |-> "waiting"]]

make_live_stream_spawn ==
    /\ conn.pc = "spawn"
    /\ tasks' = sem_acquire(create_tasks(conn.total_pages))
    /\ calls' = [calls EXCEPT !.llm = Entered(create_tasks(conn.total_pages), tasks')]
    /\ doneQ' = <<>>
    /\ conn' = [conn EXCEPT !.pc = "extract",
                            !.finished_pages = Max(0, ExtractStartProcessed),
                            !.taken = 0]
    /\ UNCHANGED <<uploaded, jobHash, buffer, blob, ttl, wire, appended, verifs, verified>>

\* The LLM call of page p returns; _one_page leaves the semaphore, which
\* lets the next waiting page in.  What the call returned is read where the
\* stream awaits the task (make_live_stream_page).
one_page_finish(p) ==
    /\ tasks[p].state = "running"
    /\ LET left == [tasks EXCEPT ![p].state = "done"]
       IN  /\ tasks' = sem_acquire(left)
           /\ calls' = [calls EXCEPT !.llm = calls.llm + Entered(left, sem_acquire(left))]
    /\ doneQ' = Append(doneQ, p)
    /\ UNCHANGED <<uploaded, jobHash, buffer, blob, ttl, conn, wire, appended,
                   verifs, verified>>

\* for cdict in claim_list: if cdict["id"] in skip: continue
\* The index of the first claim from k on whose id is not skipped.
RECURSIVE next_claim(_, _, _)
next_claim(claim_list, skip, k) ==
    IF k > Len(claim_list) \/ claim_list[k].id \notin skip THEN k
    ELSE next_claim(claim_list, skip, k + 1)

\* pn, claim_list = await fut: as_completed hands over the next finished
\* page with the claims its LLM call returned; jobs.touch.
make_live_stream_page(claims) ==
    /\ conn.pc = "extract"
    /\ doneQ # <<>>
    /\ conn' = [conn EXCEPT !.pc = "claims",
                            !.pn = Head(doneQ),
                            !.claim_list = one_page_out(Head(doneQ), claims),
                            !.ci = next_claim(one_page_out(Head(doneQ), claims),
                                              conn.skip, 1),
                            !.taken = conn.taken + 1]
    /\ doneQ' = Tail(doneQ)
    /\ tasks' = [tasks EXCEPT ![Head(doneQ)].state = "taken"]
    /\ ttl' = expire(ttl, "job")
    /\ UNCHANGED <<uploaded, jobHash, buffer, blob, wire, appended, calls, verifs, verified>>

MoreClaims == conn.pc = "claims" /\ conn.ci <= Len(conn.claim_list)

make_live_stream_append_lost ==
    /\ MoreClaims
    /\ conn' = [conn EXCEPT !.pc = "emit"]
    /\ UNCHANGED <<uploaded, jobHash, buffer, blob, ttl, tasks, doneQ, wire, appended, calls,
                   verifs, verified>>

\* await buffer.append(job_id, Claim(**cdict))
make_live_stream_append ==
    /\ MoreClaims
    /\ buffer' = buffer_append(buffer, conn.claim_list[conn.ci])
    /\ ttl' = written(ttl, "claims")
    /\ appended' = appended \cup {conn.claim_list[conn.ci].id}
    /\ calls' = [calls EXCEPT !.appends = calls.appends + 1]
    /\ conn' = [conn EXCEPT !.pc = "emit"]
    /\ UNCHANGED <<uploaded, jobHash, blob, tasks, doneQ, wire, verifs, verified>>

\* The claim event of the claim just appended.
make_live_stream_emit ==
    /\ conn.pc = "emit"
    /\ Emit(ClaimEvent(merge_verification(verifs, conn.claim_list[conn.ci]), conn.pn))
    /\ conn' = [conn EXCEPT
           !.pc = "claims",
           !.ci = next_claim(conn.claim_list, conn.skip, conn.ci + 1)]
    /\ UNCHANGED <<uploaded, jobHash, buffer, blob, ttl, tasks, doneQ, appended, calls,
                   verifs, verified>>

PageOver == conn.pc = "claims" /\ conn.ci > Len(conn.claim_list)

AfterPage ==
    [conn EXCEPT
        !.finished_pages = conn.finished_pages + 1,
        !.pn = 0, !.claim_list = <<>>, !.ci = 0,
        !.pc = IF conn.taken = conn.total_pages THEN "finish" ELSE "extract"]

\* The progress written from inside the claim loop: none for an empty page.
make_live_stream_progress_in_loop ==
    /\ PageOver
    /\ IF conn.claim_list = <<>>
       THEN UNCHANGED <<jobHash, ttl, calls, wire>>
       ELSE emit_phase_progress("extract", conn.finished_pages + 1, conn.total_pages, conn.pn)
    /\ conn' = AfterPage
    /\ UNCHANGED <<uploaded, buffer, blob, tasks, doneQ, appended, verifs, verified>>

\* The last page's progress written with the ladder's phase.
make_live_stream_progress_phase ==
    /\ PageOver
    /\ emit_phase_progress(IF conn.taken = conn.total_pages THEN "parse" ELSE "extract",
                           conn.finished_pages + 1, conn.total_pages, conn.pn)
    /\ conn' = AfterPage
    /\ UNCHANGED <<uploaded, buffer, blob, tasks, doneQ, appended, verifs, verified>>

\* The page's extract progress, after its claims.
make_live_stream_progress ==
    /\ PageOver
    /\ emit_phase_progress("extract", conn.finished_pages + 1, conn.total_pages, conn.pn)
    /\ conn' = AfterPage
    /\ UNCHANGED <<uploaded, buffer, blob, tasks, doneQ, appended, verifs, verified>>

\* All pages are through: the done event.
make_live_stream_done ==
    /\ conn.pc = "finish"
    /\ Emit(DoneEvent)
    /\ conn' = [conn EXCEPT !.pc = "closed"]
    /\ UNCHANGED <<uploaded, jobHash, buffer, blob, ttl, tasks, doneQ, appended, calls,
                   verifs, verified>>

------------------------------------------------------------------------------
(* Specification *)

\* What the server does for the open connection.
StreamStep ==
    \/ stream_claims_resolve
    \/ stream_claims_unknown_done
    \/ stream_claims_snapshot
    \/ stream_claims_pull
    \/ stream_claims_replay
    \/ stream_claims_finished
    \/ stream_claims_no_pdf
    \/ stream_claims_no_pages
    \/ stream_claims_live
    \/ make_live_stream_parse
    \/ make_live_stream_spawn
    \/ \E p \in DOMAIN tasks : one_page_finish(p)
    \/ \E claims \in ExtractorOutputs : make_live_stream_page(claims)
    \/ make_live_stream_append
    \/ make_live_stream_emit
    \/ make_live_stream_progress
    \/ make_live_stream_done

Next ==
    \/ \E data \in PdfInputs : create_job_for_file(data)
    \/ \E s \in JobStatusValues : set_status_call(s)
    \/ ClientOpen
    \/ ClientDisconnect
    \/ StreamStep

Spec == Init /\ [][Next]_vars

------------------------------------------------------------------------------
(* PaperService.verify_claim *)

\* claim_text = next((c.text for c in buffered if c.id == claim_id), claim_id)
claim_text_of(buffered, claim_id) ==
    IF \E k \in 1..Len(buffered) : buffered[k].id = claim_id
    THEN buffered[Lowest({k \in 1..Len(buffered) : buffered[k].id = claim_id})].text
    ELSE claim_id

verify_claim_first_wins(claim_id, result) ==
    /\ uploaded
    /\ verifs' = IF verifs[claim_id].found THEN verifs
                 ELSE verification_set(verifs, claim_id, result)
    /\ verified' = [verified EXCEPT ![claim_id] =
           [called |-> TRUE, claim_text |-> claim_text_of(buffer_all(buffer), claim_id),
            result |-> result]]
    /\ ttl' = written(ttl, VerifyKey(claim_id))
    /\ UNCHANGED <<uploaded, jobHash, buffer, blob, conn, tasks, doneQ, wire, appended, calls>>

\* A verify-claim call, from the client that holds the job id: the pipeline
\* answers result for the claim's text, and the answer is stored.
verify_claim(claim_id, result) ==
    /\ uploaded
    /\ verifs' = verification_set(verifs, claim_id, result)
    /\ verified' = [verified EXCEPT ![claim_id] =
           [called |-> TRUE, claim_text |-> claim_text_of(buffer_all(buffer), claim_id),
            result |-> result]]
    /\ ttl' = written(ttl, VerifyKey(claim_id))
    /\ UNCHANGED <<uploaded, jobHash, buffer, blob, conn, tasks, doneQ, wire, appended, calls>>

\* Uploads of at most one page, for the specifications of the verifications
\* and the TTLs.
SmallPdfInputs == {data \in PdfInputs : data.pages <= 1}

NextVerify ==
    \/ \E data \in SmallPdfInputs : create_job_for_file(data)
    \/ \E s \in JobStatusValues : set_status_call(s)
    \/ ClientOpen
    \/ StreamStep
    \/ \E claim_id \in VerifyIds, result \in VerifyResults : verify_claim(claim_id, result)

SpecVerify == Init /\ [][NextVerify]_vars

------------------------------------------------------------------------------
(* The key-value store's clock: every key's TTL runs down, and a key whose *)
(* TTL runs out is deleted.                                                *)

Expired(key) == ttl[key] = 1

Tick ==
    /\ \E k \in TtlKeys : ttl[k] > 0
    /\ ttl' = [k \in TtlKeys |-> IF ttl[k] > 1 THEN ttl[k] - 1 ELSE -1]
    /\ jobHash' = IF Expired("job") THEN EmptyHash ELSE jobHash
    /\ buffer' = IF Expired("claims") THEN <<>> ELSE buffer
    /\ blob' = IF Expired("blob") THEN NoPdf ELSE blob
    /\ verifs' = [c \in VerifyIds |->
                    IF Expired(VerifyKey(c)) THEN NoVerification ELSE verifs[c]]
    /\ UNCHANGED <<uploaded, conn, tasks, doneQ, wire, appended, calls, verified>>

NextTtl ==
    \/ \E data \in SmallPdfInputs : create_job_for_file(data)
    \/ \E s \in JobStatusValues : set_status_call(s)
    \/ ClientOpen
    \/ StreamStep
    \/ \E result \in VerifyResults : verify_claim(BufferedVerifyId, result)
    \/ Tick

SpecTtl == Init /\ [][NextTtl]_vars

------------------------------------------------------------------------------
(* Failures: a call the stream awaits raises, or the LLM call of a page    *)
(* fails.                                                                  *)

\* The suspension points at which the stream awaits a repository or a page
\* task: jobs.get, buffer.all, buffer.touch / verifications.get / get_pdf,
\* save_phase_progress, await fut / jobs.touch, buffer.append, the overlay.
RaisingPcs == {"resolve", "pull", "replay", "parse", "extract", "claims", "emit"}

\* Neither stream_claims nor make_live_stream catches anything: the
\* exception leaves the generator, and the response ends where it is.
stream_claims_raise ==
    /\ conn.pc \in RaisingPcs
    /\ conn' = [ConnInit EXCEPT !.pc = "raised"]
    /\ UNCHANGED <<uploaded, jobHash, buffer, blob, ttl, tasks, doneQ, wire, appended, calls,
                   verifs, verified>>

\* extract_claims_from_page on a page whose LLM request failed after its
\* retries: the failure is swallowed, the page has no claims.
extract_claims_from_page_failed == <<>>

make_live_stream_page_failed_uncounted ==
    /\ conn.pc = "extract"
    /\ doneQ # <<>>
    /\ conn' = [conn EXCEPT
           !.taken = conn.taken + 1,
           !.pc = IF conn.taken + 1 = conn.total_pages THEN "finish" ELSE "extract"]
    /\ doneQ' = Tail(doneQ)
    /\ tasks' = [tasks EXCEPT ![Head(doneQ)].state = "failed"]
    /\ ttl' = expire(ttl, "job")
    /\ UNCHANGED <<uploaded, jobHash, buffer, blob, wire, appended, calls, verifs, verified>>

\* pn, claim_list = await fut, for a page whose extraction failed.
make_live_stream_page_failed ==
    /\ conn.pc = "extract"
    /\ doneQ # <<>>
    /\ conn' = [conn EXCEPT
           !.pc = "claims",
           !.pn = Head(doneQ),
           !.claim_list = one_page_out(Head(doneQ), extract_claims_from_page_failed),
           !.ci = next_claim(one_page_out(Head(doneQ), extract_claims_from_page_failed),
                             conn.skip, 1),
           !.taken = conn.taken + 1]
    /\ doneQ' = Tail(doneQ)
    /\ tasks' = [tasks EXCEPT ![Head(doneQ)].state = "failed"]
    /\ ttl' = expire(ttl, "job")
    /\ UNCHANGED <<uploaded, jobHash, buffer, blob, wire, appended, calls, verifs, verified>>

NextFail ==
    \/ \E data \in PdfInputs : create_job_for_file(data)
    \/ \E s \in JobStatusValues : set_status_call(s)
    \/ ClientOpen
    \/ StreamStep
    \/ make_live_stream_page_failed
    \/ stream_claims_raise

SpecFail == Init /\ [][NextFail]_vars

------------------------------------------------------------------------------
(* The worker pool under load: one upload of more pages than the semaphore *)
(* has permits, streamed without a break; the pages have no claims.        *)

PoolPdfInputs == {[len |-> 1, pages |-> PoolPages]}

PoolStreamStep ==
    \/ stream_claims_resolve
    \/ stream_claims_snapshot
    \/ stream_claims_pull
    \/ stream_claims_live
    \/ make_live_stream_parse
    \/ make_live_stream_spawn
    \/ \E p \in DOMAIN tasks : one_page_finish(p)
    \/ make_live_stream_page(<<>>)
    \/ make_live_stream_progress
    \/ make_live_stream_done

NextPool ==
    \/ \E data \in PoolPdfInputs : create_job_for_file(data)
    \/ ClientOpen
    \/ PoolStreamStep

SpecPool == Init /\ [][NextPool]_vars

------------------------------------------------------------------------------
(* Properties of the event stream *)

Idx == 1..Len(wire)

IsProgress(e, phase) == e.type = "progress" /\ e.phase = phase
IsReplayClaim(e) == e.type = "claim" /\ e.page = 0
IsLiveClaim(e) == e.type = "claim" /\ e.page > 0

\* C1 Buffer-before-emit: every claim event on the wire, replayed or live,
\* carries an id that was appended to the job's buffer before the event.
C1_BufferBeforeEmit ==
    \A k \in Idx : wire[k].type = "claim" => wire[k].id \in appended

\* A connection that has replayed a claim and then emitted a live one.
C1_Witness ==
    /\ \E k \in Idx : IsReplayClaim(wire[k])
    /\ \E k \in Idx : IsLiveClaim(wire[k])

\* C2 No-duplicate-claim on reconnect: a connection opened after a cut one,
\* with claims already buffered, emits each claim id at most once.
C2_NoDuplicateOnReconnect ==
    (conn.prev = "cut" /\ conn.buffered # <<>>) =>
        \A i, j \in Idx :
            (i < j /\ wire[i].type = "claim" /\ wire[j].type = "claim")
                => wire[i].id # wire[j].id

\* C3 Finished-job idempotence: a connection that read the status finished
\* emits the snapshot event (at most one, first), replayed claims and done
\* (last, closing the stream); it calls no LLM, appends nothing and saves no
\* progress.
C3_FinishedIdempotence ==
    conn.status = "finished" =>
        /\ calls = CallsInit
        /\ tasks = <<>>
        /\ conn.pc \in {"snapshot", "pull", "replay", "closed"}
        /\ \A k \in Idx :
              \/ wire[k].type = "progress" /\ k = 1
              \/ IsReplayClaim(wire[k])
              \/ wire[k].type = "done" /\ k = Len(wire) /\ conn.pc = "closed"
        /\ conn.pc = "closed" =>
              /\ wire[Len(wire)].type = "done"
              /\ Cardinality({k \in Idx : IsReplayClaim(wire[k])}) = Len(conn.buffered)

\* A finished job answered with snapshot, a replayed claim and done.
C3_Witness ==
    /\ conn.status = "finished"
    /\ conn.pc = "closed"
    /\ Len(wire) >= 3
    /\ wire[1].type = "progress"
    /\ IsReplayClaim(wire[2])

\* C4 Completion marks the job finished: when a connection that ran the
\* extraction of all pages emits done, the job's persisted status is
\* finished.
C4_CompletionMarksFinished ==
    [][(conn.pc = "finish" /\ conn'.pc = "closed") => jobHash'.status = "finished"]_vars

\* C5 Exactly one done, last: no event follows a done event (so there is at
\* most one), a stream that ended by itself ended with done, and a stream
\* that has not ended and is not cut can take a step.
C5_ExactlyOneDoneLast ==
    /\ \A k \in Idx : wire[k].type = "done" => k = Len(wire)
    /\ conn.pc = "closed" => (Len(wire) >= 1 /\ wire[Len(wire)].type = "done")
    /\ conn.pc \notin {"idle", "closed", "cut"} => ENABLED StreamStep

\* A full extraction of at least two pages, ended by itself.
C5_Witness ==
    /\ conn.pc = "closed"
    /\ conn.total_pages >= 2
    /\ conn.taken = conn.total_pages
    /\ \E k \in Idx : IsLiveClaim(wire[k])

ExtractProgressAt == {k \in Idx : IsProgress(wire[k], "extract") /\ wire[k].page > 0}

\* C6 Per-page ordering: a page's claim events all precede its extract
\* progress event, the events of one page are contiguous (an event that has
\* an earlier event of its page has an event of its page just before it),
\* each page has at most one extract progress event, each page taken and
\* worked off has one, and a stream that extracted to the end emitted one
\* for each of 1..N.
C6_PerPageOrdering ==
    LET E == ExtractProgressAt IN
    /\ \A k \in E : \A j \in Idx :
          (IsLiveClaim(wire[j]) /\ wire[j].page = wire[k].page) => j < k
    /\ \A i, k \in Idx :
          (i < k /\ wire[i].page > 0 /\ wire[i].page = wire[k].page)
              => wire[k - 1].page = wire[k].page
    /\ \A k1, k2 \in E : wire[k1].page = wire[k2].page => k1 = k2
    /\ conn.pc \in {"extract", "finish"} => Cardinality(E) = conn.taken
    /\ (conn.pc = "closed" /\ conn.total_pages > 0) =>
          {wire[k].page : k \in E} = 1..conn.total_pages

\* A stream of two pages or more that ended by itself, one page of it with
\* two claim events.
C6_Witness ==
    /\ conn.pc = "closed"
    /\ conn.total_pages >= 2
    /\ \E i, j \in Idx : i < j /\ IsLiveClaim(wire[i]) /\ IsLiveClaim(wire[j])
                         /\ wire[i].page = wire[j].page

SnapshotEvents == IF conn.snap.found /\ conn.snap.total > 0 THEN 1 ELSE 0
Replayed == IF conn.pc = "replay" THEN conn.idx - 1 ELSE Len(conn.buffered)

\* C7 Replay order: after at most one snapshot progress event the buffered
\* claims follow in buffer order with nothing between them, and every event
\* after them is a parse-ladder or extract-phase event, never a replay.
C7_ReplayOrder ==
    conn.pc \notin {"idle", "resolve", "unknown", "snapshot", "pull", "cut"} =>
        /\ Len(wire) >= SnapshotEvents + Replayed
        /\ SnapshotEvents = 1 => wire[1].type = "progress"
        /\ \A i \in 1..Replayed :
              /\ IsReplayClaim(wire[SnapshotEvents + i])
              /\ wire[SnapshotEvents + i].id = conn.buffered[i].id
        /\ \A k \in Idx : k > SnapshotEvents + Replayed => ~IsReplayClaim(wire[k])

\* A reconnect that showed the snapshot, replayed two different claims and
\* went on to extraction.
C7_Witness ==
    /\ conn.pc = "closed"
    /\ SnapshotEvents = 1
    /\ Len(conn.buffered) >= 2
    /\ conn.buffered[1].id # conn.buffered[2].id
    /\ \E k \in Idx : IsProgress(wire[k], "extract")

\* C8 Monotone progress per phase within a connection: of two progress
\* events of one connection with the same phase, the initial snapshot event
\* included, the later has no smaller processed, and every progress event
\* has processed <= total.
C8_MonotoneProgressPerPhase ==
    /\ \A i, j \in Idx :
          (i < j /\ wire[i].type = "progress" /\ wire[j].type = "progress"
                 /\ wire[i].phase = wire[j].phase)
              => wire[i].processed <= wire[j].processed
    /\ \A k \in Idx : wire[k].type = "progress" => wire[k].processed <= wire[k].total

\* C9 Phase monotonicity within a connection: no progress event of phase
\* parse follows a progress event of phase extract.
C9_PhaseMonotonicity ==
    LET Extract == {k \in Idx : IsProgress(wire[k], "extract")}
        Parse == {k \in Idx : IsProgress(wire[k], "parse")}
    IN  \A i \in Extract, j \in Parse : j < i

\* A stream with the parse ladder and two extract progress events, ended by
\* itself.
C9_Witness ==
    /\ conn.pc = "closed"
    /\ \E k \in Idx : IsProgress(wire[k], "parse")
    /\ Cardinality({k \in Idx : IsProgress(wire[k], "extract")}) >= 2

\* C10 Persisted snapshot monotonicity across connections: a write to the
\* job's stored snapshot that keeps the phase does not lower processed,
\* processed never exceeds total, and the stored phase never goes from
\* extract back to parse.
C10_PersistedSnapshotMonotone ==
    [][jobHash.phase # "" =>
          /\ jobHash'.phase = jobHash.phase
                => jobHash'.progress_processed >= jobHash.progress_processed
          /\ jobHash'.progress_processed <= jobHash'.progress_total
          /\ jobHash.phase = "extract" => jobHash'.phase # "parse"]_vars

\* The event a step has put on the wire.
Emitted == Len(wire') = Len(wire) + 1
LastEvent == wire'[Len(wire')]

\* C11 Resume after a mid-extract disconnect: while the stored snapshot is
\* (extract, k of N) with k < N, a connection emits no parse progress and
\* no extract progress below k, and the done event of an extraction comes
\* with the stored snapshot at (extract, N of N).
C11_ResumeAfterMidExtract ==
    [][/\ (/\ jobHash.phase = "extract"
           /\ jobHash.progress_processed < jobHash.progress_total
           /\ Emitted /\ LastEvent.type = "progress")
          => /\ LastEvent.phase = "extract"
             /\ LastEvent.processed >= jobHash.progress_processed
             /\ LastEvent.processed <= LastEvent.total
       /\ (conn.pc = "finish" /\ Emitted /\ LastEvent.type = "done")
          => /\ jobHash.phase = "extract"
             /\ jobHash.progress_processed = jobHash.progress_total]_vars

Stores == <<jobHash, buffer, blob, verifs, ttl>>

\* C12 Unknown job: a stream-claim on a job id the Job Repository does not
\* hold emits the error event "Unknown or expired jobId", then done, and
\* nothing else, and none of its steps changes the job, buffer, verification
\* or blob store.
C12_UnknownJob ==
    [][/\ (conn.pc = "resolve" /\ ~get(jobHash).found /\ conn' # conn /\ conn'.pc # "cut")
          => /\ wire' = <<ErrorEvent("Unknown or expired jobId")>>
             /\ conn'.pc = "unknown"
             /\ UNCHANGED Stores
       /\ (conn.pc = "unknown" /\ conn' # conn /\ conn'.pc # "cut")
          => /\ wire' = <<ErrorEvent("Unknown or expired jobId"), DoneEvent>>
             /\ conn'.pc = "closed"
             /\ UNCHANGED Stores]_vars

\* The job was created and streamed (a claim was appended), then its key
\* expired: the next stream answers error, done.
C12_Witness ==
    /\ uploaded
    /\ appended # {}
    /\ ~HashExists(jobHash)
    /\ conn.pc = "closed"
    /\ Len(wire) = 2
    /\ wire[1].type = "error"
    /\ wire[2].type = "done"

\* C18 TTL refresh: a step that writes a key (the job hash by create, put,
\* set_status or a progress save, the buffer by an append, the blob by put,
\* a verification by set) leaves that key with a remaining TTL of
\* PERSISTENCE_TTL_SECONDS.
C18_TtlRefresh ==
    [][/\ (calls'.saves > calls.saves \/ (jobHash' # jobHash /\ HashExists(jobHash')))
          => ttl'["job"] = PERSISTENCE_TTL_SECONDS
       /\ (calls'.appends > calls.appends \/ (buffer' # buffer /\ buffer' # <<>>))
          => ttl'["claims"] = PERSISTENCE_TTL_SECONDS
       /\ (blob' # blob /\ blob' # NoPdf)
          => ttl'["blob"] = PERSISTENCE_TTL_SECONDS
       /\ \A c \in VerifyIds :
             (verified'[c] # verified[c] \/ (verifs'[c] # verifs[c] /\ verifs'[c].found))
                => ttl'[VerifyKey(c)] = PERSISTENCE_TTL_SECONDS]_vars

\* Time has passed since the upload (the blob's TTL has run down), and the
\* job hash, the buffer and a verification written since are at the full TTL.
C18_Witness ==
    /\ ttl["blob"] = 1
    /\ ttl["job"] = PERSISTENCE_TTL_SECONDS
    /\ ttl["claims"] = PERSISTENCE_TTL_SECONDS
    /\ ttl[VerifyKey(BufferedVerifyId)] = PERSISTENCE_TTL_SECONDS
    /\ calls.saves > 0

\* C13 Missing blob: a stream-claim on an existing job that is not finished
\* and whose blob is absent ends with an error event followed by done.
C13_MissingBlob ==
    [][(/\ ReplayOver
        /\ ~IsFinished(conn.status)
        /\ ~get_pdf(blob).present
        /\ conn'.pc = "closed")
          => /\ Len(wire') >= 2
             /\ wire'[Len(wire') - 1].type = "error"
             /\ wire'[Len(wire')].type = "done"]_vars

\* C14 Failure after the first byte: a connection in which a step raised
\* after at least one event was emitted has ended with an error event
\* followed by a done event.
C14_FailureAfterFirstByte ==
    (conn.pc = "raised" /\ wire # <<>>) =>
        /\ Len(wire) >= 2
        /\ wire[Len(wire) - 1].type = "error"
        /\ wire[Len(wire)].type = "done"

FailedPages == InState(tasks, "failed")

\* C15 Page failure is swallowed: a page whose extraction failed has no
\* claim event and, once worked off, exactly one extract progress event with
\* total N; every page taken counts as completed; a stream that extracted to
\* the end has one extract progress event for each of 1..N and ends with
\* done.
C15_PageFailureSwallowed ==
    LET E == ExtractProgressAt IN
    conn.pc \in {"extract", "claims", "emit", "finish", "closed"} =>
        /\ \A p \in FailedPages :
              /\ \A k \in Idx : wire[k].type = "claim" => wire[k].page # p
              /\ conn.pn # p =>
                    /\ Cardinality({k \in E : wire[k].page = p}) = 1
                    /\ \A k \in E : wire[k].page = p => wire[k].total = conn.total_pages
        /\ conn.pc \in {"extract", "finish"} => Cardinality(E) = conn.taken
        /\ (conn.pc = "closed" /\ conn.total_pages > 0) =>
              /\ {wire[k].page : k \in E} = 1..conn.total_pages
              /\ wire[Len(wire)].type = "done"

\* A two-page stream that ended by itself: one page failed, the other
\* page's claim was emitted.
C15_Witness ==
    /\ conn.pc = "closed"
    /\ conn.total_pages = 2
    /\ Cardinality(FailedPages) = 1
    /\ \E k \in Idx : IsLiveClaim(wire[k]) /\ wire[k].page \notin FailedPages
    /\ wire[Len(wire)].type = "done"

Unverified(r) ==
    r.verdict = "" /\ r.confidence = -1 /\ r.reasoningMd = "" /\ ~r.sourceUploaded

Carries(e, saved) ==
    /\ e.verdict = saved.verdict
    /\ e.confidence = saved.confidence
    /\ e.reasoningMd = saved.reasoningMd
    /\ e.sourceUploaded

\* C16 Overlay integrity: a claim event, replayed or live, for a claim with
\* a stored verification carries the stored verdict, confidence and
\* reasoningMd with sourceUploaded true, and one without carries none; the
\* emission leaves the buffer as it is, and every record in the buffer is as
\* it was appended (no verdict, sourceUploaded false).
C16_OverlayIntegrity ==
    [][/\ (Emitted /\ LastEvent.type = "claim") =>
             /\ IF verification_get(verifs, LastEvent.id).found
                THEN Carries(LastEvent, verification_get(verifs, LastEvent.id))
                ELSE Unverified(LastEvent)
             /\ buffer' = buffer
       /\ \A k \in 1..Len(buffer') : Unverified(buffer'[k])]_vars

\* One connection has replayed a verified claim with the overlay and
\* emitted a verified claim live with the overlay; both are in the buffer.
C16_Witness ==
    /\ \E k \in Idx : IsReplayClaim(wire[k]) /\ wire[k].sourceUploaded
    /\ \E k \in Idx : IsLiveClaim(wire[k]) /\ wire[k].sourceUploaded
    /\ Len(buffer) >= 2

\* C17 Verification is last-write-wins: the stored verification of a claim
\* id is the result of the last verify-claim call completed for it, a claim
\* event for it carries that result, and a call for an id that was never in
\* the buffer is stored too, verified against the id as the claim text.
C17_LastWriteWins ==
    [][/\ \A c \in VerifyIds :
             /\ verifs'[c] = verified'[c].result
             /\ (verified'[c].called /\ c \notin appended) => verified'[c].claim_text = c
             /\ (verified'[c] # verified[c] /\ c \in appended)
                   => verified'[c].claim_text = MakeClaim(c).text
       /\ (Emitted /\ LastEvent.type = "claim" /\ LastEvent.id \in VerifyIds) =>
             IF verified[LastEvent.id].called
             THEN Carries(LastEvent, verified[LastEvent.id].result)
             ELSE Unverified(LastEvent)]_vars

\* A claim was replayed with the first verdict and verified again since with
\* another, which is what the store holds; the id that is in no buffer has a
\* verification too.
C17_Witness ==
    /\ \E k \in Idx : /\ wire[k].id = BufferedVerifyId
                      /\ wire[k].verdict # ""
                      /\ wire[k].verdict # verifs[BufferedVerifyId].verdict
    /\ verifs[BufferedVerifyId].found
    /\ verifs[UnknownVerifyId].found
    /\ UnknownVerifyId \notin appended

\* The extraction calls in flight: started and not yet returned.
InFlight == calls.llm - Cardinality(InState(tasks, "done") \cup InState(tasks, "taken"))

\* C19 Bounded concurrency: at every moment of a connection the number of
\* page extraction calls in flight is at most max(1, EXTRACT_CONCURRENCY),
\* and the pages in flight are the ones inside the semaphore.
C19_BoundedConcurrency ==
    tasks # <<>> =>
        /\ InFlight <= Max(1, EXTRACT_CONCURRENCY)
        /\ InFlight = Cardinality(InState(tasks, "running"))

\* The bound bites: all permits are taken, a page is waiting, and a page
\* that had to wait has been let in after another returned.
C19_Witness ==
    /\ InFlight = Max(1, EXTRACT_CONCURRENCY)
    /\ InState(tasks, "waiting") # {}
    /\ calls.llm > Max(1, EXTRACT_CONCURRENCY)

\* C20 Cancellation on disconnect: once the client has disconnected, no
\* page extraction call of that connection starts or completes any more,
\* and the disconnect leaves the buffer as it is.
C20_CancellationOnDisconnect ==
    [][/\ (conn.pc = "cut" /\ conn'.pc = "cut")
          => /\ tasks' = tasks
             /\ doneQ' = doneQ
             /\ calls'.llm = calls.llm
       /\ (conn.pc # "cut" /\ conn'.pc = "cut") => buffer' = buffer]_vars

\* C21 Claim ids are unique within a job: the job's buffer never holds two
\* claims with the same id.
C21_ClaimIdsUnique ==
    \A i, j \in 1..Len(buffer) : i < j => buffer[i].id # buffer[j].id

\* C22 getProgressSnapshot result: for the stored job hash, the snapshot is
\* returned exactly when a phase (parse or extract) is set and total > 0,
\* and it is the stored phase, processed and total.
C22_ProgressSnapshotResult ==
    LET snap == get_progress_snapshot(jobHash)
        stored_total == IF jobHash.progress_total = -1 THEN 0 ELSE jobHash.progress_total
    IN  /\ snap.found <=> (/\ HashExists(jobHash)
                           /\ jobHash.phase \in {"parse", "extract"}
                           /\ stored_total > 0)
        /\ snap.found => /\ snap.phase = jobHash.phase
                         /\ snap.processed = jobHash.progress_processed
                         /\ snap.total = jobHash.progress_total

\* C23 createJobForFile postcondition: the step that returns the job id
\* starts from a state in which no job holds that id, and leaves the job
\* stored with status streaming and processed = total = 0, the buffer empty
\* and the blob holding exactly the uploaded bytes.
C23_CreateJobPostcondition ==
    [][\A data \in PdfInputs :
          create_job_for_file(data) =>
              /\ ~get(jobHash).found
              /\ get(jobHash') = [found |-> TRUE, id |-> JobId, status |-> "streaming",
                                  processed |-> 0, total |-> 0]
              /\ buffer_all(buffer') = <<>>
              /\ get_pdf(blob') = [present |-> TRUE, len |-> data.len,
                                   pages |-> data.pages]]_vars

C23_Witness ==
    /\ uploaded
    /\ conn.pc = "idle"
    /\ get(jobHash).status = "streaming"
    /\ buffer_all(buffer) = <<>>
    /\ get_pdf(blob) = [present |-> TRUE, len |-> 1, pages |-> MaxPages]

-------------------------------------------------------------------------------
(* JobRepository on its own: create, put, set_status and the progress     *)
(* saves called in any order on the job's key.                            *)

\* The Job values put is called with: id, status, processed, total.
JobInputs ==
    {[id |-> JobId, status |-> s, processed |-> p, total |-> t] :
        s \in JobStatusValues, p \in 0..MaxPages, t \in 0..MaxPages}

\* JobRepository.put called on the job's key.
put_call(job) ==
    /\ uploaded
    /\ jobHash' = put(jobHash, job)
    /\ ttl' = written(ttl, "job")
    /\ UNCHANGED <<uploaded, buffer, blob, conn, tasks, doneQ, wire, appended, calls,
                   verifs, verified>>

\* JobRepository.save_parse_progress called on the job's key.
save_parse_progress_call(processed, total) ==
    /\ uploaded
    /\ jobHash' = save_parse_progress(jobHash, processed, total)
    /\ ttl' = written(ttl, "job")
    /\ UNCHANGED <<uploaded, buffer, blob, conn, tasks, doneQ, wire, appended, calls,
                   verifs, verified>>

\* JobRepository.save_phase_progress called on the job's key.
save_phase_progress_call(phase, processed, total) ==
    /\ uploaded
    /\ jobHash' = save_phase_progress(jobHash, phase, processed, total)
    /\ ttl' = written(ttl, "job")
    /\ UNCHANGED <<uploaded, buffer, blob, conn, tasks, doneQ, wire, appended, calls,
                   verifs, verified>>

NextRepo ==
    \/ \E data \in SmallPdfInputs : create_job_for_file(data)
    \/ \E job \in JobInputs : put_call(job)
    \/ \E s \in JobStatusValues : set_status_call(s)
    \/ \E processed, total \in 0..MaxPages :
          save_parse_progress_call(processed, total)
    \/ \E processed, total \in 0..MaxPages :
          save_phase_progress_call("extract", processed, total)

SpecRepo == Init /\ [][NextRepo]_vars

C25_NoJobResurrection ==
    get(jobHash).found => jobHash.id = JobId

\* The order of progress: parse before extract, then by processed.
PhaseRank(phase) == IF phase = "extract" THEN 2 ELSE IF phase = "parse" THEN 1 ELSE 0

AtLeastAsAdvanced(snap, e) ==
    \/ PhaseRank(snap.phase) > PhaseRank(e.phase)
    \/ snap.phase = e.phase /\ snap.processed >= e.processed

\* A parse-ladder or extract-phase progress event goes on the wire with the
\* same phase, processed and total stored in the job hash.
SavedAtEmit ==
    (Emitted /\ LastEvent.type = "progress" /\ conn.pc # "snapshot") =>
        /\ jobHash'.phase = LastEvent.phase
        /\ jobHash'.progress_processed = LastEvent.processed
        /\ jobHash'.progress_total = LastEvent.total

\* The client disconnects with a progress event as the last one received:
\* the snapshot a reconnect reads is at least as advanced as that event.
SnapshotOnReconnect ==
    (conn.pc # "cut" /\ conn'.pc = "cut" /\ wire # <<>>
        /\ wire[Len(wire)].type = "progress") =>
        LET snap == get_progress_snapshot(jobHash') IN
        /\ snap.found
        /\ snap.total > 0
        /\ AtLeastAsAdvanced(snap, wire[Len(wire)])

C26_SavedAtEmit == [][SavedAtEmit]_vars

\* C26 Progress is persisted before it is emitted: every parse-ladder or
\* extract-phase progress event is emitted with the same phase, processed
\* and total already saved in the Job Repository, and a client that
\* disconnects right after receiving a progress event finds on reconnect a
\* snapshot at least as advanced as that event.
C26_PersistedBeforeEmitted ==
    [][SavedAtEmit /\ SnapshotOnReconnect]_vars

====
